---- MODULE Spec2Model ----
(***************************************************************************)
(* Actor pool of actor_client.py: the supervisor (main) starts NUM_ACTORS  *)
(* threads running run_actor, runs the learner, sets the shared stop       *)
(* signal and joins the threads.  Each actor loops: GetParams, rollout,    *)
(* InsertTrajectory.  The parameter service, the trajectory sink and the   *)
(* learner are collaborators reached over RPC.                             *)
(***************************************************************************)
EXTENDS Integers, Sequences, FiniteSets, TLC

\* ---- program constants (actor_client.py:39-46) ----
ACTION_REPEAT == 1
BATCH_SIZE == 2
NUM_ACTORS == 2
UNROLL_LENGTH == 20
FRAMES_PER_ITER == ACTION_REPEAT * BATCH_SIZE * UNROLL_LENGTH

\* ---- bounds of the model ----
\* number of updates the learner's run is asked for (int(max_updates) in main)
MaxUpdates == 1
\* loop iterations one actor may begin: enough for a single surviving actor to
\* feed every update of the learner
MaxIters == MaxUpdates * BATCH_SIZE

Actors == 1..NUM_ACTORS

VARIABLES
  supPc,         \* position of main: Starting, Learner, SetStop, Joining, Done, Aborted
  started,       \* number of actor threads started so far
  joined,        \* number of actor threads joined so far
  stop_signal,   \* stop_signal[0]
  pc,            \* position of each run_actor thread
  frame_count,   \* local frame_count of each actor
  params,        \* local params of each actor
  traj,          \* the trajectory of each actor's latest InsertTrajectory request
  published,     \* the learner's current snapshot
  versions,      \* every snapshot the learner has published
  updates,       \* updates the learner's run has completed
  queue,         \* the learner's ingestion queue
  enqueued,      \* number of trajectories that ever entered the queue
  iters,         \* GetParams calls each actor has issued
  prevFetch,     \* what each actor's GetParams call before the latest returned
  inserts,       \* InsertTrajectory calls each actor has issued
  insertOk,      \* InsertTrajectory calls of each actor that returned successfully
  error,         \* the call that raised in each actor's loop, "None" if none did
  stopWrites,    \* number of writes to the stop signal
  itersAtStop,   \* iters at the moment the stop signal was set
  insertsAtStop, \* inserts at the moment the stop signal was set
  insertOkAtStop, \* insertOk at the moment the stop signal was set
  response,      \* the snapshot the service took for each GetParams call in flight
  fetches,       \* GetParams calls of each actor that have returned
  recording,     \* whether the order of returns and arrivals is being recorded
  lastReturner,  \* the actor whose GetParams call returned most recently, 0 if none
  receivedOlder, \* whether each actor's latest GetParams returned a lower frameCount
                 \* than the GetParams of another actor that returned just before
  lastEnqueuer,  \* the actor whose trajectory entered the queue most recently
  enteredAfter,  \* the actor whose trajectory entered just before each actor's latest
  codecPc,       \* position of a codec round trip: idle, input, encoded, decoded
  codecIn,       \* the value handed to json.dumps
  codecWire,     \* the JSON document json.dumps produced
  codecOut       \* the value json.loads returned

supVars == <<supPc, started, joined, stop_signal, stopWrites, itersAtStop, insertsAtStop, insertOkAtStop>>
learnerVars == <<published, versions, updates>>
sinkVars == <<queue, enqueued>>
actorVars == <<pc, frame_count, params, traj, iters, prevFetch, inserts, insertOk, error>>
codecVars == <<codecPc, codecIn, codecWire, codecOut>>
orderVars == <<recording, lastReturner, receivedOlder, lastEnqueuer, enteredAfter>>
vars == <<supPc, started, joined, stop_signal, pc, frame_count, params, traj,
          published, versions, updates, queue, enqueued, iters, prevFetch,
          inserts, insertOk, error, stopWrites, itersAtStop, insertsAtStop, insertOkAtStop,
          codecPc, codecIn, codecWire, codecOut,
          response, fetches, recording, lastReturner, receivedOlder, lastEnqueuer, enteredAfter>>

NoParams == -1
NoSnapshot == [frameCount |-> -1, parameters |-> NoParams]
NoTraj == [actor |-> 0, iter |-> 0, frameCount |-> 0, parameters |-> NoParams,
           wellFormed |-> TRUE]

\* a version counter that runs backwards
SnapshotCountdown(k) ==
  [frameCount |-> (MaxUpdates - k) * FRAMES_PER_ITER, parameters |-> k]

\* the snapshot the learner publishes after its k-th update
Snapshot(k) == [frameCount |-> k * FRAMES_PER_ITER, parameters |-> k]

\* a service that hands out the snapshot of the update still being computed
GetParamsAhead == [frameCount |-> (updates + 1) * FRAMES_PER_ITER, parameters |-> updates + 1]

\* Parameter Service: GetParams returns the most recently published snapshot
GetParamsResponse == published

\* Trajectory Sink: InsertTrajectory puts the one trajectory at the end of the queue
Enqueue(q, t) == Append(q, t)

\* a sink that puts the payload in the queue before it tries to decode it
InsertTrajectoryEnqueueFirst(q, t) ==
  IF t.wellFormed
  THEN [queue |-> Enqueue(q, t), result |-> "Ack"]
  ELSE [queue |-> Enqueue(q, t), result |-> "MalformedTrajectory"]

\* Trajectory Sink: a payload that decodes is enqueued and acknowledged; one that
\* does not decode fails with MalformedTrajectory and the queue is left as it was
InsertTrajectory(q, t) ==
  IF t.wellFormed
  THEN [queue |-> Enqueue(q, t), result |-> "Ack"]
  ELSE [queue |-> q, result |-> "MalformedTrajectory"]

\* the state of the pool when main has built stop_signal and actor_threads
PoolInit ==
  /\ supPc = "Starting"
  /\ started = 0
  /\ joined = 0
  /\ stop_signal = FALSE
  /\ pc = [a \in Actors |-> "NotStarted"]
  /\ frame_count = [a \in Actors |-> 0]
  /\ params = [a \in Actors |-> NoParams]
  /\ traj = [a \in Actors |-> NoTraj]
  /\ published = Snapshot(0)
  /\ versions = {Snapshot(0)}
  /\ updates = 0
  /\ queue = <<>>
  /\ enqueued = 0
  /\ iters = [a \in Actors |-> 0]
  /\ prevFetch = [a \in Actors |-> NoSnapshot]
  /\ inserts = [a \in Actors |-> 0]
  /\ insertOk = [a \in Actors |-> 0]
  /\ error = [a \in Actors |-> "None"]
  /\ stopWrites = 0
  /\ itersAtStop = [a \in Actors |-> 0]
  /\ insertsAtStop = [a \in Actors |-> 0]
  /\ insertOkAtStop = [a \in Actors |-> 0]
  /\ response = [a \in Actors |-> NoSnapshot]
  /\ fetches = [a \in Actors |-> 0]
  /\ lastReturner = 0
  /\ receivedOlder = [a \in Actors |-> FALSE]
  /\ lastEnqueuer = 0
  /\ enteredAfter = [a \in Actors |-> 0]

\* ---------------------------------------------------------------------------
\* The codec: json.dumps(x, cls=NumpyEncoder) and
\* json.loads(text, object_hook=ndarray_decoder).
\*
\* Python values are records: a dict [tag, items], a list [tag, elems], a number
\* [tag, val] and a numpy array [tag, shape, data] with data in row-major order.
\* A JSON document is the tree of objects, arrays and numbers its text denotes.

\* bounds of the values a round trip is tried on
MaxRank == 2
MaxDim == 2

Dict(f) == [tag |-> "dict", items |-> f]
List(e) == [tag |-> "list", elems |-> e]
Number(n) == [tag |-> "number", val |-> n]
NdArray(sh, d) == [tag |-> "ndarray", shape |-> sh, data |-> d]
JsonObject(f) == [tag |-> "object", items |-> f]
JsonArray(e) == [tag |-> "array", elems |-> e]
JsonNumber(n) == [tag |-> "jsonnumber", val |-> n]
NoValue == [tag |-> "none"]

RECURSIVE Product(_)
Product(sh) == IF sh = <<>> THEN 1 ELSE Head(sh) * Product(Tail(sh))

RECURSIVE Flatten(_)
Flatten(ss) == IF ss = <<>> THEN <<>> ELSE Head(ss) \o Flatten(Tail(ss))

\* ndarray.tolist(): a number for a rank-0 array, nested lists otherwise
RECURSIVE ToList(_, _)
ToList(sh, d) ==
  IF sh = <<>>
  THEN Number(d[1])
  ELSE LET size == Product(Tail(sh))
       IN List([i \in 1..Head(sh) |->
                  ToList(Tail(sh), SubSeq(d, (i - 1) * size + 1, i * size))])

\* np.array(l) of a list of numbers or of equally shaped lists
RECURSIVE NpArray(_)
NpArray(l) ==
  LET n == Len(l.elems)
  IN IF n = 0
     THEN NdArray(<<0>>, <<>>)
     ELSE IF l.elems[1].tag = "number"
     THEN NdArray(<<n>>, [i \in 1..n |-> l.elems[i].val])
     ELSE LET subs == [i \in 1..n |-> NpArray(l.elems[i])]
          IN NdArray(<<n>> \o subs[1].shape,
                     Flatten([i \in 1..n |-> subs[i].data]))

\* json.dumps with NumpyEncoder: default() replaces an ndarray by obj.tolist()
RECURSIVE Dumps(_)
Dumps(v) ==
  IF v.tag = "dict"
  THEN JsonObject([k \in DOMAIN v.items |-> Dumps(v.items[k])])
  ELSE IF v.tag = "ndarray"
  THEN Dumps(ToList(v.shape, v.data))
  ELSE IF v.tag = "list"
  THEN JsonArray([i \in 1..Len(v.elems) |-> Dumps(v.elems[i])])
  ELSE JsonNumber(v.val)

\* ndarray_decoder: the values of a dict are decoded in turn, a list becomes
\* np.array(list), anything else is returned as it is
RECURSIVE ndarray_decoder(_)
ndarray_decoder(dct) ==
  IF dct.tag = "dict"
  THEN Dict([key \in DOMAIN dct.items |-> ndarray_decoder(dct.items[key])])
  ELSE IF dct.tag = "list"
  THEN NpArray(dct)
  ELSE dct

\* json.loads with object_hook: every JSON object, innermost first, is replaced by
\* what the hook returns for its dict; arrays become lists, numbers numbers
RECURSIVE Loads(_)
Loads(j) ==
  IF j.tag = "object"
  THEN ndarray_decoder(Dict([k \in DOMAIN j.items |-> Loads(j.items[k])]))
  ELSE IF j.tag = "array"
  THEN List([i \in 1..Len(j.elems) |-> Loads(j.elems[i])])
  ELSE Number(j.val)

\* the shapes of rank at most MaxRank with every dimension at most MaxDim
RECURSIVE ShapesOfRank(_)
ShapesOfRank(r) ==
  IF r = 0 THEN {<<>>}
  ELSE {<<n>> \o sh : n \in 0..MaxDim, sh \in ShapesOfRank(r - 1)}

Shapes == UNION {ShapesOfRank(r) : r \in 0..MaxRank}

\* per shape, an array of zeros and an array counting 1, 2, 3, ...
Arrays ==
  {NdArray(sh, [i \in 1..Product(sh) |-> 0]) : sh \in Shapes}
    \cup {NdArray(sh, [i \in 1..Product(sh) |-> i]) : sh \in Shapes}

\* nested mappings of arrays: {"w": a}, {"w": {"b": a}}, {"w": a, "b": {"w": a2}}
CodecInputs ==
  {Dict([k \in {"w"} |-> a]) : a \in Arrays}
    \cup {Dict([k \in {"w"} |-> Dict([j \in {"b"} |-> a])]) : a \in Arrays}
    \cup {Dict([k \in {"w", "b"} |->
                  IF k = "w" THEN a ELSE Dict([j \in {"w"} |-> a2])]) :
            a \in Arrays, a2 \in Arrays}

CodecIdle ==
  /\ codecPc = "idle"
  /\ codecIn = NoValue
  /\ codecWire = NoValue
  /\ codecOut = NoValue

CodecInit ==
  /\ PoolInit
  /\ recording = FALSE
  /\ codecPc = "input"
  /\ codecIn \in CodecInputs
  /\ codecWire = NoValue
  /\ codecOut = NoValue

\* t_obj = json.dumps(x, cls=NumpyEncoder)
CodecEncode ==
  /\ codecPc = "input"
  /\ codecWire' = Dumps(codecIn)
  /\ codecPc' = "encoded"
  /\ UNCHANGED <<codecIn, codecOut>>
  /\ UNCHANGED <<supVars, learnerVars, sinkVars, actorVars, response, fetches, orderVars>>

\* json.loads(text, object_hook=ndarray_decoder)
CodecDecode ==
  /\ codecPc = "encoded"
  /\ codecOut' = Loads(codecWire)
  /\ codecPc' = "decoded"
  /\ UNCHANGED <<codecIn, codecWire>>
  /\ UNCHANGED <<supVars, learnerVars, sinkVars, actorVars, response, fetches, orderVars>>

CodecNext == CodecEncode \/ CodecDecode

CodecSpec == CodecInit /\ [][CodecNext]_vars
Init == PoolInit /\ CodecIdle /\ recording = FALSE

\* ---------------------------------------------------------------------------
\* main (the supervisor)

\* learner.run called inside the loop that starts the threads
StartActorThenRun(a) ==
  /\ supPc = "Starting"
  /\ a = started + 1
  /\ started' = a
  /\ pc' = [pc EXCEPT ![a] = "LoopTest"]
  /\ supPc' = "Learner"
  /\ UNCHANGED <<joined, stop_signal, stopWrites, itersAtStop, insertsAtStop, insertOkAtStop>>
  /\ UNCHANGED <<frame_count, params, traj, iters, prevFetch, inserts, insertOk, error>>
  /\ UNCHANGED <<learnerVars, sinkVars>>
  /\ UNCHANGED codecVars
  /\ UNCHANGED <<response, fetches>>
  /\ UNCHANGED orderVars

\* for t in actor_threads: t.start(); after the last one, learner.run is called
StartActor(a) ==
  /\ supPc = "Starting"
  /\ a = started + 1
  /\ started' = a
  /\ pc' = [pc EXCEPT ![a] = "LoopTest"]
  /\ supPc' = IF a = NUM_ACTORS THEN "Learner" ELSE "Starting"
  /\ UNCHANGED <<joined, stop_signal, stopWrites, itersAtStop, insertsAtStop, insertOkAtStop>>
  /\ UNCHANGED <<frame_count, params, traj, iters, prevFetch, inserts, insertOk, error>>
  /\ UNCHANGED <<learnerVars, sinkVars>>
  /\ UNCHANGED codecVars
  /\ UNCHANGED <<response, fetches>>
  /\ UNCHANGED orderVars

\* one update of learner.run: takes a batch out of the queue, publishes a snapshot
LearnerUpdate ==
  /\ supPc = "Learner"
  /\ updates < MaxUpdates
  /\ Len(queue) >= BATCH_SIZE
  /\ queue' = SubSeq(queue, BATCH_SIZE + 1, Len(queue))
  /\ updates' = updates + 1
  /\ published' = Snapshot(updates + 1)
  /\ versions' = versions \cup {Snapshot(updates + 1)}
  /\ UNCHANGED <<supVars, actorVars, enqueued>>
  /\ UNCHANGED codecVars
  /\ UNCHANGED <<response, fetches>>
  /\ UNCHANGED orderVars

\* learner.run(int(max_updates)) returns
LearnerReturn ==
  /\ supPc = "Learner"
  /\ updates = MaxUpdates
  /\ supPc' = "SetStop"
  /\ UNCHANGED <<started, joined, stop_signal, stopWrites, itersAtStop, insertsAtStop, insertOkAtStop>>
  /\ UNCHANGED <<learnerVars, actorVars, sinkVars>>
  /\ UNCHANGED codecVars
  /\ UNCHANGED <<response, fetches>>
  /\ UNCHANGED orderVars

\* a main that sets the signal on the way out of a failed learner.run, as a
\* try/finally around line 128 would
LearnerAbortSetsStop ==
  /\ supPc = "Learner"
  /\ supPc' = "Aborted"
  /\ stop_signal' = TRUE
  /\ UNCHANGED <<started, joined, stopWrites, itersAtStop, insertsAtStop, insertOkAtStop>>
  /\ UNCHANGED <<learnerVars, actorVars, sinkVars>>
  /\ UNCHANGED codecVars
  /\ UNCHANGED <<response, fetches>>
  /\ UNCHANGED orderVars

\* learner.run raises: main ends with the exception, the lines after it never run
LearnerAbort ==
  /\ supPc = "Learner"
  /\ supPc' = "Aborted"
  /\ UNCHANGED <<started, joined, stop_signal, stopWrites, itersAtStop, insertsAtStop, insertOkAtStop>>
  /\ UNCHANGED <<learnerVars, actorVars, sinkVars>>
  /\ UNCHANGED codecVars
  /\ UNCHANGED <<response, fetches>>
  /\ UNCHANGED orderVars

\* the signal written before learner.run has returned
SetStopEarly ==
  /\ supPc = "Learner"
  /\ stop_signal' = TRUE
  /\ stopWrites' = stopWrites + 1
  /\ itersAtStop' = iters
  /\ insertsAtStop' = inserts
  /\ insertOkAtStop' = insertOk
  /\ supPc' = "Joining"
  /\ UNCHANGED <<started, joined>>
  /\ UNCHANGED <<learnerVars, actorVars, sinkVars>>
  /\ UNCHANGED codecVars
  /\ UNCHANGED <<response, fetches>>
  /\ UNCHANGED orderVars

\* stop_signal[0] = True
SetStop ==
  /\ supPc = "SetStop"
  /\ stop_signal' = TRUE
  /\ stopWrites' = stopWrites + 1
  /\ itersAtStop' = iters
  /\ insertsAtStop' = inserts
  /\ insertOkAtStop' = insertOk
  /\ supPc' = "Joining"
  /\ UNCHANGED <<started, joined>>
  /\ UNCHANGED <<learnerVars, actorVars, sinkVars>>
  /\ UNCHANGED codecVars
  /\ UNCHANGED <<response, fetches>>
  /\ UNCHANGED orderVars

\* a join that only returns for a thread that left its loop by the signal
TerminatedCleanly(a) == pc[a] = "STOPPED"

\* t.join() returns once the thread has ended, by leaving the loop or by an exception
Terminated(a) == pc[a] \in {"STOPPED", "FAILED"}

\* main going on without waiting for the thread to end
JoinActorNoWait(a) ==
  /\ supPc = "Joining"
  /\ a = joined + 1
  /\ joined' = a
  /\ supPc' = IF a = NUM_ACTORS THEN "Done" ELSE "Joining"
  /\ UNCHANGED <<started, stop_signal, stopWrites, itersAtStop, insertsAtStop, insertOkAtStop>>
  /\ UNCHANGED <<learnerVars, actorVars, sinkVars>>
  /\ UNCHANGED codecVars
  /\ UNCHANGED <<response, fetches>>
  /\ UNCHANGED orderVars

\* for t in actor_threads: t.join(); after the last one, main returns
JoinActor(a) ==
  /\ supPc = "Joining"
  /\ a = joined + 1
  /\ Terminated(a)
  /\ joined' = a
  /\ supPc' = IF a = NUM_ACTORS THEN "Done" ELSE "Joining"
  /\ UNCHANGED <<started, stop_signal, stopWrites, itersAtStop, insertsAtStop, insertOkAtStop>>
  /\ UNCHANGED <<learnerVars, actorVars, sinkVars>>
  /\ UNCHANGED codecVars
  /\ UNCHANGED <<response, fetches>>
  /\ UNCHANGED orderVars

\* ---------------------------------------------------------------------------
\* run_actor

\* a loop that never looks at the signal (while True)
LoopTestIgnoresStop(a) ==
  /\ pc[a] = "LoopTest"
  /\ iters[a] < MaxIters
  /\ pc' = [pc EXCEPT ![a] = "GetParamsCall"]
  /\ UNCHANGED <<frame_count, params, traj, iters, prevFetch, inserts, insertOk, error>>
  /\ UNCHANGED <<supVars, learnerVars, sinkVars>>
  /\ UNCHANGED codecVars
  /\ UNCHANGED <<response, fetches>>
  /\ UNCHANGED orderVars

\* while not stop_signal[0]:
LoopTest(a) ==
  /\ pc[a] = "LoopTest"
  /\ stop_signal \/ iters[a] < MaxIters
  /\ pc' = [pc EXCEPT ![a] = IF stop_signal THEN "STOPPED" ELSE "GetParamsCall"]
  /\ UNCHANGED <<frame_count, params, traj, iters, prevFetch, inserts, insertOk, error>>
  /\ UNCHANGED <<supVars, learnerVars, sinkVars>>
  /\ UNCHANGED codecVars
  /\ UNCHANGED <<response, fetches>>
  /\ UNCHANGED orderVars

\* stub.GetParams(GetParamsRequest()) is issued; the service answers with the
\* snapshot published at the instant of the call
GetParamsCall(a) ==
  /\ pc[a] = "GetParamsCall"
  /\ pc' = [pc EXCEPT ![a] = "FETCHING"]
  /\ iters' = [iters EXCEPT ![a] = @ + 1]
  /\ response' = [response EXCEPT ![a] = GetParamsResponse]
  /\ UNCHANGED fetches
  /\ UNCHANGED <<frame_count, params, traj, prevFetch, inserts, insertOk, error>>
  /\ UNCHANGED <<supVars, learnerVars, sinkVars>>
  /\ UNCHANGED codecVars
  /\ UNCHANGED orderVars

\* frame_count taken from one response and params from the response of another,
\* earlier call
\* history of the order in which GetParams calls return: the actor whose call
\* returned last, and whether this return hands its actor a lower frameCount than
\* the one the previous return handed to another actor
RecordReturn(a) ==
  IF recording
  THEN /\ lastReturner' = a
       /\ receivedOlder' = [receivedOlder EXCEPT ![a] =
                              /\ lastReturner \notin {0, a}
                              /\ frame_count'[a] < frame_count[lastReturner]]
       /\ UNCHANGED <<recording, lastEnqueuer, enteredAfter>>
  ELSE UNCHANGED orderVars

\* history of the order in which trajectories enter the queue: the actor whose
\* trajectory entered last, and for each actor the one whose trajectory entered
\* just before its latest
RecordArrival(a) ==
  IF recording
  THEN /\ lastEnqueuer' = a
       /\ enteredAfter' = [enteredAfter EXCEPT ![a] = lastEnqueuer]
       /\ UNCHANGED <<recording, lastReturner, receivedOlder>>
  ELSE UNCHANGED orderVars

\* a service that answers with whatever is published when the response leaves,
\* not with the snapshot of the instant of the call
GetParamsReturnLatest(a) ==
  /\ pc[a] = "FETCHING"
  /\ frame_count' = [frame_count EXCEPT ![a] = published.frameCount]
  /\ params' = [params EXCEPT ![a] = published.parameters]
  /\ prevFetch' = [prevFetch EXCEPT ![a] =
                     IF iters[a] > 1
                     THEN [frameCount |-> frame_count[a], parameters |-> params[a]]
                     ELSE NoSnapshot]
  /\ pc' = [pc EXCEPT ![a] = "ROLLING_OUT"]
  /\ UNCHANGED <<traj, iters, inserts, insertOk, error>>
  /\ UNCHANGED <<supVars, learnerVars, sinkVars>>
  /\ UNCHANGED codecVars
  /\ response' = [response EXCEPT ![a] = NoSnapshot]
  /\ fetches' = [fetches EXCEPT ![a] = @ + 1]
  /\ RecordReturn(a)

GetParamsReturnTorn(a) ==
  /\ pc[a] = "FETCHING"
  /\ \E earlier \in versions :
       /\ frame_count' = [frame_count EXCEPT ![a] = response[a].frameCount]
       /\ params' = [params EXCEPT ![a] = earlier.parameters]
  /\ prevFetch' = [prevFetch EXCEPT ![a] =
                     IF iters[a] > 1
                     THEN [frameCount |-> frame_count[a], parameters |-> params[a]]
                     ELSE NoSnapshot]
  /\ pc' = [pc EXCEPT ![a] = "ROLLING_OUT"]
  /\ UNCHANGED <<traj, iters, inserts, insertOk, error>>
  /\ UNCHANGED <<supVars, learnerVars, sinkVars>>
  /\ UNCHANGED codecVars
  /\ response' = [response EXCEPT ![a] = NoSnapshot]
  /\ fetches' = [fetches EXCEPT ![a] = @ + 1]
  /\ RecordReturn(a)

\* the call returns; frame_count and params are taken from the one response.
\* params is the payload as received, named by the version it carries; a payload
\* that json.loads cannot decode is GetParamsFail
GetParamsReturn(a) ==
  /\ pc[a] = "FETCHING"
  /\ LET param_result == response[a]
     IN /\ frame_count' = [frame_count EXCEPT ![a] = param_result.frameCount]
        /\ params' = [params EXCEPT ![a] = param_result.parameters]
  /\ prevFetch' = [prevFetch EXCEPT ![a] =
                     IF iters[a] > 1
                     THEN [frameCount |-> frame_count[a], parameters |-> params[a]]
                     ELSE NoSnapshot]
  /\ pc' = [pc EXCEPT ![a] = "ROLLING_OUT"]
  /\ UNCHANGED <<traj, iters, inserts, insertOk, error>>
  /\ UNCHANGED <<supVars, learnerVars, sinkVars>>
  /\ UNCHANGED codecVars
  /\ response' = [response EXCEPT ![a] = NoSnapshot]
  /\ fetches' = [fetches EXCEPT ![a] = @ + 1]
  /\ RecordReturn(a)

\* the call (or the decoding of its payload) raises: the thread ends
GetParamsFail(a) ==
  /\ pc[a] = "FETCHING"
  /\ error' = [error EXCEPT ![a] = "GetParams"]
  /\ pc' = [pc EXCEPT ![a] = "FAILED"]
  /\ response' = [response EXCEPT ![a] = NoSnapshot]
  /\ UNCHANGED fetches
  /\ UNCHANGED <<frame_count, params, traj, iters, prevFetch, inserts, insertOk>>
  /\ UNCHANGED <<supVars, learnerVars, sinkVars>>
  /\ UNCHANGED codecVars
  /\ UNCHANGED orderVars

\* a rollout that looks at the signal and gives the iteration up when it is set
UnrollChecksStop(a) ==
  /\ pc[a] = "ROLLING_OUT"
  /\ IF stop_signal
     THEN /\ pc' = [pc EXCEPT ![a] = "STOPPED"]
          /\ UNCHANGED <<traj, inserts>>
     ELSE /\ \E wf \in BOOLEAN :
               traj' = [traj EXCEPT ![a] = [actor |-> a, iter |-> iters[a],
                                            frameCount |-> frame_count[a],
                                            parameters |-> params[a],
                                            wellFormed |-> wf]]
          /\ inserts' = [inserts EXCEPT ![a] = @ + 1]
          /\ pc' = [pc EXCEPT ![a] = "SUBMITTING"]
  /\ UNCHANGED <<frame_count, params, iters, prevFetch, insertOk, error>>
  /\ UNCHANGED <<supVars, learnerVars, sinkVars>>
  /\ UNCHANGED codecVars
  /\ UNCHANGED <<response, fetches>>
  /\ UNCHANGED orderVars

\* a rollout invoked with the snapshot of the iteration before, when there is one
UnrollStale(a) ==
  /\ pc[a] = "ROLLING_OUT"
  /\ LET used == IF prevFetch[a] # NoSnapshot
                 THEN prevFetch[a]
                 ELSE [frameCount |-> frame_count[a], parameters |-> params[a]]
     IN \E wf \in BOOLEAN :
          traj' = [traj EXCEPT ![a] = [actor |-> a, iter |-> iters[a],
                                       frameCount |-> used.frameCount,
                                       parameters |-> used.parameters,
                                       wellFormed |-> wf]]
  /\ inserts' = [inserts EXCEPT ![a] = @ + 1]
  /\ pc' = [pc EXCEPT ![a] = "SUBMITTING"]
  /\ UNCHANGED <<frame_count, params, iters, prevFetch, insertOk, error>>
  /\ UNCHANGED <<supVars, learnerVars, sinkVars>>
  /\ UNCHANGED codecVars
  /\ UNCHANGED <<response, fetches>>
  /\ UNCHANGED orderVars

\* a rollout that also hands its trajectory to the learner object the actor was
\* constructed with, in process, before the trajectory is submitted
UnrollPushesInProcess(a) ==
  /\ pc[a] = "ROLLING_OUT"
  /\ \E wf \in BOOLEAN :
       traj' = [traj EXCEPT ![a] = [actor |-> a, iter |-> iters[a],
                                    frameCount |-> frame_count[a],
                                    parameters |-> params[a],
                                    wellFormed |-> wf]]
  /\ queue' = Enqueue(queue, traj'[a])
  /\ inserts' = [inserts EXCEPT ![a] = @ + 1]
  /\ pc' = [pc EXCEPT ![a] = "SUBMITTING"]
  /\ UNCHANGED <<frame_count, params, iters, prevFetch, insertOk, error>>
  /\ UNCHANGED <<supVars, learnerVars, enqueued>>
  /\ UNCHANGED codecVars
  /\ UNCHANGED <<response, fetches>>
  /\ UNCHANGED orderVars

\* actor.unroll_and_push(frame_count, params_frozen) returns a trajectory, which is
\* encoded and passed to stub.InsertTrajectory.  What the rollout returns is the
\* rollout generator's business: its encoding may or may not be a payload the
\* sink can decode as a trajectory.
Unroll(a) ==
  /\ pc[a] = "ROLLING_OUT"
  /\ \E wf \in BOOLEAN :
       traj' = [traj EXCEPT ![a] = [actor |-> a, iter |-> iters[a],
                                    frameCount |-> frame_count[a],
                                    parameters |-> params[a],
                                    wellFormed |-> wf]]
  /\ inserts' = [inserts EXCEPT ![a] = @ + 1]
  /\ pc' = [pc EXCEPT ![a] = "SUBMITTING"]
  /\ UNCHANGED <<frame_count, params, iters, prevFetch, insertOk, error>>
  /\ UNCHANGED <<supVars, learnerVars, sinkVars>>
  /\ UNCHANGED codecVars
  /\ UNCHANGED <<response, fetches>>
  /\ UNCHANGED orderVars

\* the rollout raises: the thread ends
UnrollFail(a) ==
  /\ pc[a] = "ROLLING_OUT"
  /\ error' = [error EXCEPT ![a] = "Rollout"]
  /\ pc' = [pc EXCEPT ![a] = "FAILED"]
  /\ UNCHANGED <<frame_count, params, traj, iters, prevFetch, inserts, insertOk>>
  /\ UNCHANGED <<supVars, learnerVars, sinkVars>>
  /\ UNCHANGED codecVars
  /\ UNCHANGED <<response, fetches>>
  /\ UNCHANGED orderVars

\* the same trajectory passed to InsertTrajectory a second time after the first
\* call returned
InsertReturnResend(a) ==
  /\ pc[a] = "SUBMITTING"
  /\ InsertTrajectory(queue, traj[a]).result = "Ack"
  /\ queue' = InsertTrajectory(InsertTrajectory(queue, traj[a]).queue, traj[a]).queue
  /\ enqueued' = enqueued + (Len(queue') - Len(queue))
  /\ inserts' = [inserts EXCEPT ![a] = @ + 1]
  /\ insertOk' = [insertOk EXCEPT ![a] = @ + 2]
  /\ pc' = [pc EXCEPT ![a] = "LoopTest"]
  /\ UNCHANGED <<frame_count, params, traj, iters, prevFetch, error>>
  /\ UNCHANGED <<supVars, learnerVars>>
  /\ UNCHANGED codecVars
  /\ UNCHANGED <<response, fetches>>
  /\ RecordArrival(a)

\* a sink that takes a trajectory only while the learner's run is going on
InsertReturnWhileLearning(a) ==
  /\ pc[a] = "SUBMITTING"
  /\ supPc \in {"Starting", "Learner"}
  /\ InsertTrajectory(queue, traj[a]).result = "Ack"
  /\ queue' = InsertTrajectory(queue, traj[a]).queue
  /\ enqueued' = enqueued + (Len(queue') - Len(queue))
  /\ insertOk' = [insertOk EXCEPT ![a] = @ + 1]
  /\ pc' = [pc EXCEPT ![a] = "LoopTest"]
  /\ UNCHANGED <<frame_count, params, traj, iters, prevFetch, inserts, error>>
  /\ UNCHANGED <<supVars, learnerVars>>
  /\ UNCHANGED codecVars
  /\ UNCHANGED <<response, fetches>>
  /\ RecordArrival(a)

\* the sink takes the trajectory and the call returns: back to the loop test
InsertReturn(a) ==
  /\ pc[a] = "SUBMITTING"
  /\ InsertTrajectory(queue, traj[a]).result = "Ack"
  /\ queue' = InsertTrajectory(queue, traj[a]).queue
  /\ enqueued' = enqueued + (Len(queue') - Len(queue))
  /\ insertOk' = [insertOk EXCEPT ![a] = @ + 1]
  /\ pc' = [pc EXCEPT ![a] = "LoopTest"]
  /\ UNCHANGED <<frame_count, params, traj, iters, prevFetch, inserts, error>>
  /\ UNCHANGED <<supVars, learnerVars>>
  /\ UNCHANGED codecVars
  /\ UNCHANGED <<response, fetches>>
  /\ RecordArrival(a)

\* the exception caught and the loop continued
InsertFailContinue(a) ==
  /\ pc[a] = "SUBMITTING"
  /\ error' = [error EXCEPT ![a] = "InsertTrajectory"]
  /\ pc' = [pc EXCEPT ![a] = "LoopTest"]
  /\ UNCHANGED <<frame_count, params, traj, iters, prevFetch, inserts, insertOk>>
  /\ UNCHANGED <<supVars, learnerVars, sinkVars>>
  /\ UNCHANGED codecVars
  /\ UNCHANGED <<response, fetches>>
  /\ UNCHANGED orderVars

\* the sink answers MalformedTrajectory: the call raises, the thread ends
InsertMalformed(a) ==
  /\ pc[a] = "SUBMITTING"
  /\ InsertTrajectory(queue, traj[a]).result = "MalformedTrajectory"
  /\ queue' = InsertTrajectory(queue, traj[a]).queue
  /\ enqueued' = enqueued + (Len(queue') - Len(queue))
  /\ error' = [error EXCEPT ![a] = "MalformedTrajectory"]
  /\ pc' = [pc EXCEPT ![a] = "FAILED"]
  /\ UNCHANGED <<frame_count, params, traj, iters, prevFetch, inserts, insertOk>>
  /\ UNCHANGED <<supVars, learnerVars>>
  /\ UNCHANGED codecVars
  /\ UNCHANGED <<response, fetches>>
  /\ UNCHANGED orderVars

\* the call raises without reaching the sink: nothing is enqueued, the thread ends
InsertFail(a) ==
  /\ pc[a] = "SUBMITTING"
  /\ error' = [error EXCEPT ![a] = "InsertTrajectory"]
  /\ pc' = [pc EXCEPT ![a] = "FAILED"]
  /\ UNCHANGED <<frame_count, params, traj, iters, prevFetch, inserts, insertOk>>
  /\ UNCHANGED <<supVars, learnerVars, sinkVars>>
  /\ UNCHANGED codecVars
  /\ UNCHANGED <<response, fetches>>
  /\ UNCHANGED orderVars

ActorStep(a) ==
  \/ LoopTest(a)
  \/ GetParamsCall(a)
  \/ GetParamsReturn(a)
  \/ GetParamsFail(a)
  \/ Unroll(a)
  \/ UnrollFail(a)
  \/ InsertReturn(a)
  \/ InsertMalformed(a)
  \/ InsertFail(a)

Next ==
  \/ \E a \in Actors : StartActor(a)
  \/ LearnerUpdate
  \/ LearnerReturn
  \/ LearnerAbort
  \/ SetStop
  \/ \E a \in Actors : JoinActor(a)
  \/ \E a \in Actors : ActorStep(a)

Spec == Init /\ [][Next]_vars

\* Every step that is not a failure is eventually taken when it stays possible:
\* threads are scheduled fairly and every call that does not raise returns; the
\* sink also answers every request it cannot decode.
Fairness ==
  /\ \A a \in Actors : WF_vars(StartActor(a))
  /\ WF_vars(LearnerUpdate)
  /\ WF_vars(LearnerReturn)
  /\ WF_vars(SetStop)
  /\ \A a \in Actors : WF_vars(JoinActor(a))
  /\ \A a \in Actors : WF_vars(LoopTest(a))
  /\ \A a \in Actors : WF_vars(GetParamsCall(a))
  /\ \A a \in Actors : WF_vars(GetParamsReturn(a))
  /\ \A a \in Actors : WF_vars(Unroll(a))
  /\ \A a \in Actors : WF_vars(InsertReturn(a))
  /\ \A a \in Actors : WF_vars(InsertMalformed(a))

FairSpec == Spec /\ Fairness

\* the same program with the order of returns and arrivals recorded
OrderInit == PoolInit /\ CodecIdle /\ recording = TRUE
OrderSpec == OrderInit /\ [][Next]_vars

TypeOK ==
  /\ supPc \in {"Starting", "Learner", "SetStop", "Joining", "Done", "Aborted"}
  /\ started \in 0..NUM_ACTORS
  /\ joined \in 0..NUM_ACTORS
  /\ stop_signal \in BOOLEAN
  /\ \A a \in Actors : pc[a] \in {"NotStarted", "LoopTest", "GetParamsCall", "FETCHING",
                                  "ROLLING_OUT", "SUBMITTING", "STOPPED", "FAILED"}
  /\ \A a \in Actors : error[a] \in {"None", "GetParams", "Rollout", "InsertTrajectory",
                                     "MalformedTrajectory"}
  /\ updates \in 0..MaxUpdates
  /\ published \in versions
  /\ enqueued \in 0..(NUM_ACTORS * MaxIters)
  /\ \A a \in Actors : iters[a] \in 0..MaxIters

\* ---------------------------------------------------------------------------
\* helpers of the properties

RECURSIVE SumUpTo(_, _)
SumUpTo(f, n) == IF n = 0 THEN 0 ELSE f[n] + SumUpTo(f, n - 1)

NoDuplicates(q) == \A i, j \in 1..Len(q) : q[i] = q[j] => i = j

HasFetched(a) == params[a] # NoParams
Held(a) == [frameCount |-> frame_count[a], parameters |-> params[a]]

\* the snapshots actors hold or held one fetch earlier
Received ==
  {Held(a) : a \in {b \in Actors : HasFetched(b)}}
    \cup {prevFetch[a] : a \in {b \in Actors : prevFetch[b] # NoSnapshot}}

\* ---------------------------------------------------------------------------
\* C1: under fair scheduling, with every call that does not raise returning, once
\* the stop signal is set every actor's loop exits (STOPPED, or FAILED for an
\* actor one of whose calls raised) and main returns.
C1_StopLeadsToStopped ==
  stop_signal ~>
    (/\ supPc = "Done"
     /\ \A a \in Actors :
          pc[a] = (IF error[a] = "None" THEN "STOPPED" ELSE "FAILED"))

\* main has returned, and an actor that the signal caught inside an iteration
\* finished that iteration and stopped
C1_Witness ==
  /\ supPc = "Done"
  /\ \E a \in Actors : pc[a] = "STOPPED" /\ inserts[a] > insertsAtStop[a]

\* C2: whenever main has returned, all NUM_ACTORS threads were started and joined
\* and every one of them has ended; none is still fetching, rolling out or
\* submitting.
C2_NoActorAbandoned ==
  supPc = "Done" =>
    /\ started = NUM_ACTORS
    /\ joined = NUM_ACTORS
    /\ \A a \in Actors : pc[a] \in {"STOPPED", "FAILED"}

C2_Witness == supPc = "Done" /\ \A a \in Actors : pc[a] = "STOPPED"

\* C3: the stop signal is false until it is written; it is written at most once,
\* false to true, in a step of main taken after learner.run has returned with all
\* its updates done, and no actor moves in that step; once true it stays true.
C3_StopInv ==
  /\ stopWrites \in {0, 1}
  /\ stop_signal <=> stopWrites = 1
  /\ supPc \in {"Starting", "Learner", "SetStop", "Aborted"} => ~stop_signal

C3_StopStep ==
  /\ stop_signal => stop_signal'
  /\ (stop_signal' # stop_signal \/ stopWrites' # stopWrites) =>
       /\ supPc = "SetStop" /\ supPc' = "Joining"
       /\ updates = MaxUpdates
       /\ ~stop_signal /\ stop_signal'
       /\ stopWrites = 0 /\ stopWrites' = 1
       /\ pc' = pc
  /\ supPc' = "SetStop" => supPc \in {"Learner", "SetStop"}

C3_StopWrittenOnce == []C3_StopInv /\ [][C3_StopStep]_vars

C3_Witness == stop_signal /\ stopWrites = 1 /\ supPc = "Joining" /\ joined = 0

\* C4: after the stop signal is set an actor issues at most one more GetParams
\* and at most one more InsertTrajectory; an actor that tests the loop condition
\* while the signal is true stops without issuing a call, and stays stopped.
C4_AfterStopInv ==
  stop_signal =>
    \A a \in Actors :
      /\ iters[a] - itersAtStop[a] <= 1
      /\ inserts[a] - insertsAtStop[a] <= 1

C4_AfterStopStep ==
  \A a \in Actors :
    /\ (stop_signal /\ pc[a] = "LoopTest" /\ pc'[a] # "LoopTest") =>
         (pc'[a] = "STOPPED" /\ iters'[a] = iters[a] /\ inserts'[a] = inserts[a])
    /\ pc[a] = "STOPPED" =>
         (pc'[a] = "STOPPED" /\ iters'[a] = iters[a] /\ inserts'[a] = inserts[a])

C4_AtMostOneIterationAfterStop == []C4_AfterStopInv /\ [][C4_AfterStopStep]_vars

\* an actor that had passed the loop test when the signal was set: one GetParams
\* and one InsertTrajectory after the signal, then the stop
C4_Witness ==
  /\ stop_signal
  /\ \E a \in Actors :
       /\ pc[a] = "STOPPED"
       /\ iters[a] = itersAtStop[a] + 1
       /\ inserts[a] = insertsAtStop[a] + 1

\* C5: the frameCount a GetParams call returns to an actor is never lower than
\* the one its previous GetParams call returned.
C5_FrameCountMonotonic ==
  \A a \in Actors :
    prevFetch[a] # NoSnapshot => prevFetch[a].frameCount <= frame_count[a]

\* an actor saw the frame count advance between two consecutive fetches
C5_Witness ==
  \E a \in Actors :
    prevFetch[a] # NoSnapshot /\ prevFetch[a].frameCount < frame_count[a]

\* C6: what an actor takes from GetParams is one published snapshot, frameCount
\* and parameters of the same version; two received snapshots with the same
\* frameCount have the same parameters.
C6_SnapshotNotTorn ==
  /\ Received \subseteq versions
  /\ \A s, t \in Received : s.frameCount = t.frameCount => s.parameters = t.parameters

\* two actors are both past their fetch, one with the snapshot from before a
\* publication and one with the snapshot from after it
C6_Witness ==
  \E a, b \in Actors :
    /\ pc[a] = "ROLLING_OUT" /\ pc[b] = "ROLLING_OUT"
    /\ iters[a] = iters[b]
    /\ Held(a) = Snapshot(0) /\ Held(b) = Snapshot(1)

\* C7: the frameCount an actor holds, and the one in the trajectory it rolled
\* out, never exceeds the learner's currently published frameCount.
C7_NeverFromTheFuture ==
  \A a \in Actors :
    /\ frame_count[a] <= published.frameCount
    /\ traj[a].frameCount <= published.frameCount

\* an actor is rolling out with a snapshot older than the published one
C7_Witness ==
  \E a \in Actors :
    /\ pc[a] = "ROLLING_OUT"
    /\ iters[a] > 1
    /\ frame_count[a] < published.frameCount

C9_FailedInv ==
  \A a \in Actors :
    /\ error[a] # "None" <=> pc[a] = "FAILED"
    /\ error[a] \in {"InsertTrajectory", "MalformedTrajectory"} =>
         /\ insertOk[a] = inserts[a] - 1
         /\ \A i \in 1..Len(queue) : queue[i] # traj[a]

C9_FailedStep ==
  \A a \in Actors :
    pc[a] = "FAILED" =>
      /\ pc'[a] = "FAILED"
      /\ error'[a] = error[a]
      /\ iters'[a] = iters[a]
      /\ inserts'[a] = inserts[a]
      /\ insertOk'[a] = insertOk[a]

C9_FailureIsFatal == []C9_FailedInv /\ [][C9_FailedStep]_vars

\* an InsertTrajectory of a second iteration raised; main has returned since
C9_Witness ==
  /\ supPc = "Done"
  /\ \E a \in Actors : error[a] = "InsertTrajectory" /\ inserts[a] = 2

\* C10: the step in which an actor fails changes nothing of main, of the
\* learner, of the queue or of another actor; and when at least one actor never
\* fails (and learner.run itself does not raise), the learner completes its
\* updates and main sets the signal, joins all NUM_ACTORS threads and returns.
C10_FailStep ==
  \A a \in Actors :
    error'[a] # error[a] =>
      /\ UNCHANGED <<supVars, learnerVars, sinkVars>>
      /\ \A b \in Actors \ {a} : pc'[b] = pc[b] /\ error'[b] = error[b]

C10_Completes ==
  ((\E a \in Actors : [](error[a] = "None")) /\ [](supPc # "Aborted"))
    => <>(supPc = "Done" /\ updates = MaxUpdates /\ joined = NUM_ACTORS /\ stop_signal)

C10_FailureIsContained == [][C10_FailStep]_vars /\ C10_Completes

\* one actor failed before the learner was done, the other fed the learner and
\* stopped, main has returned
C10_Witness ==
  /\ supPc = "Done"
  /\ updates = MaxUpdates
  /\ \E a, b \in Actors :
       /\ pc[a] = "FAILED" /\ insertOk[a] = 0
       /\ pc[b] = "STOPPED" /\ insertOk[b] >= MaxUpdates * BATCH_SIZE

\* C11: an InsertTrajectory call whose payload does not decode never returns
\* successfully; it ends in the MalformedTrajectory error (or the call fails
\* before reaching the sink) and the queue is, in length and contents, what it was
\* before the call; nothing undecodable is ever in the queue.
C11_MalformedStep ==
  \A a \in Actors :
    /\ (pc[a] = "SUBMITTING" /\ ~traj[a].wellFormed /\ pc'[a] # pc[a]) =>
         /\ pc'[a] = "FAILED"
         /\ error'[a] \in {"MalformedTrajectory", "InsertTrajectory"}
         /\ queue' = queue
         /\ enqueued' = enqueued
    /\ (error'[a] = "MalformedTrajectory" /\ error[a] # "MalformedTrajectory") =>
         /\ pc[a] = "SUBMITTING" /\ ~traj[a].wellFormed
         /\ queue' = queue

C11_QueueDecodes == \A i \in 1..Len(queue) : queue[i].wellFormed

C11_MalformedLeavesQueue == []C11_QueueDecodes /\ [][C11_MalformedStep]_vars

\* a malformed payload was refused while a trajectory was waiting in the queue
C11_Witness ==
  \E a \in Actors :
    /\ error[a] = "MalformedTrajectory"
    /\ ~traj[a].wellFormed
    /\ Len(queue) > 0

\* C12: main starts the NUM_ACTORS threads one after the other, all of them
\* before learner.run is called and none afterwards; a thread that has ended,
\* by the signal or by an exception, is never started again; and once
\* learner.run has returned, every loop ends and main returns.
C12_StartInv ==
  /\ started \in 0..NUM_ACTORS
  /\ \A a \in Actors : pc[a] # "NotStarted" <=> a <= started
  /\ supPc # "Starting" => started = NUM_ACTORS
  /\ supPc = "Starting" => updates = 0

C12_StartStep ==
  /\ started' # started => (supPc = "Starting" /\ started' = started + 1)
  /\ \A a \in Actors :
       /\ pc[a] # "NotStarted" => pc'[a] # "NotStarted"
       /\ pc[a] \in {"STOPPED", "FAILED"} => pc'[a] = pc[a]
       /\ (pc[a] = "NotStarted" /\ pc'[a] # "NotStarted") =>
            (pc'[a] = "LoopTest" /\ supPc = "Starting" /\ ~stop_signal)

C12_RunReturns ==
  supPc = "SetStop" ~>
    (/\ supPc = "Done"
     /\ started = NUM_ACTORS
     /\ joined = NUM_ACTORS
     /\ updates = MaxUpdates
     /\ \A a \in Actors : pc[a] \in {"STOPPED", "FAILED"}
     /\ \A a \in Actors : error[a] = "None" => pc[a] = "STOPPED")

C12_ExactlyNumActors == []C12_StartInv /\ [][C12_StartStep]_vars /\ C12_RunReturns

\* the scenario: both actors started, the learner made its updates, both loops
\* stopped on the signal, main returned
C12_Witness ==
  /\ supPc = "Done"
  /\ started = NUM_ACTORS
  /\ updates = MaxUpdates
  /\ \A a \in Actors : pc[a] = "STOPPED" /\ error[a] = "None" /\ insertOk[a] > 0

\* C13: decoding the encoding of a nested mapping of arrays gives back a value
\* equal to it, every leaf an array of the same shape and numbers.
C13_RoundTrip == codecPc = "decoded" => codecOut = codecIn

\* what does hold: the round trip is exact when every leaf has rank at least 1
\* and no dimension of length 0 before its last one
RECURSIVE RoundTrippable(_)
RoundTrippable(v) ==
  IF v.tag = "dict"
  THEN \A k \in DOMAIN v.items : RoundTrippable(v.items[k])
  ELSE /\ Len(v.shape) >= 1
       /\ \A i \in 1..(Len(v.shape) - 1) : v.shape[i] > 0

RoundTripOfRankOneUp ==
  (codecPc = "decoded" /\ RoundTrippable(codecIn)) => codecOut = codecIn

\* C14: an actor only moves LoopTest -> GetParams -> rollout -> InsertTrajectory
\* -> LoopTest; the signal decides only the step out of LoopTest, STOPPED is
\* entered only from LoopTest with the signal true, every other way out of the
\* cycle is a failure; and an iteration that has begun runs, in this order,
\* through its GetParams, its rollout and its InsertTrajectory unless one raises.
C14_CycleStep ==
  \A a \in Actors :
    /\ pc'[a] # pc[a] =>
         \/ pc[a] = "NotStarted" /\ pc'[a] = "LoopTest"
         \/ pc[a] = "LoopTest" /\ ~stop_signal /\ pc'[a] = "GetParamsCall"
         \/ pc[a] = "LoopTest" /\ stop_signal /\ pc'[a] = "STOPPED"
         \/ pc[a] = "GetParamsCall" /\ pc'[a] = "FETCHING" /\ iters'[a] = iters[a] + 1
         \/ pc[a] = "FETCHING" /\ pc'[a] \in {"ROLLING_OUT", "FAILED"}
         \/ pc[a] = "ROLLING_OUT" /\ pc'[a] = "SUBMITTING" /\ inserts'[a] = inserts[a] + 1
         \/ pc[a] = "ROLLING_OUT" /\ pc'[a] = "FAILED"
         \/ pc[a] = "SUBMITTING" /\ pc'[a] = "LoopTest" /\ insertOk'[a] = insertOk[a] + 1
         \/ pc[a] = "SUBMITTING" /\ pc'[a] = "FAILED"
    /\ (pc'[a] = "FAILED" /\ pc[a] # "FAILED") => error'[a] # "None"
    /\ (pc'[a] = "STOPPED" /\ pc[a] # "STOPPED") => error'[a] = "None"

C14_IterationCompletes ==
  \A a \in Actors :
    pc[a] = "GetParamsCall" ~>
      (pc[a] = "FAILED" \/ (pc[a] = "LoopTest" /\ insertOk[a] = iters[a]))

C14_ActorCycle == [][C14_CycleStep]_vars /\ C14_IterationCompletes

\* the signal is set and an actor is in the rollout of the iteration it had
\* begun before that
C14_Witness ==
  /\ stop_signal
  /\ \E a \in Actors :
       pc[a] = "ROLLING_OUT" /\ iters[a] = itersAtStop[a] /\ inserts[a] = insertsAtStop[a]

\* C15: an InsertTrajectory call that completes when the signal is set and
\* learner.run has returned is served like any other: its trajectory goes to the
\* end of the queue and stays there, the actor goes back to the loop test, and
\* from there the actor stops and main returns.
C15_LateStep ==
  \A a \in Actors :
    (stop_signal /\ insertOk'[a] # insertOk[a]) =>
      /\ pc[a] = "SUBMITTING" /\ pc'[a] = "LoopTest"
      /\ insertOk'[a] = insertOk[a] + 1
      /\ queue' = Append(queue, traj[a])
      /\ enqueued' = enqueued + 1
      /\ UNCHANGED <<supVars, learnerVars>>

C15_LateStays ==
  stop_signal =>
    /\ updates = MaxUpdates
    /\ Len(queue) = enqueued - MaxUpdates * BATCH_SIZE

C15_LateDoesNotBlock ==
  \A a \in Actors :
    (stop_signal /\ pc[a] = "SUBMITTING") ~>
      (supPc = "Done" /\ pc[a] \in {"STOPPED", "FAILED"})

C15_LateTrajectoryAccepted ==
  []C15_LateStays /\ [][C15_LateStep]_vars /\ C15_LateDoesNotBlock

\* a call issued before the signal completed after it: its trajectory is in the
\* queue, the actor has stopped, main has returned
C15_Witness ==
  /\ supPc = "Done"
  /\ \E a \in Actors :
       /\ pc[a] = "STOPPED"
       /\ inserts[a] = insertsAtStop[a]
       /\ insertOk[a] = insertOkAtStop[a] + 1
       /\ \E i \in 1..Len(queue) : queue[i] = traj[a]

\* ---- C16 ----
\* what a returning GetParams call hands its actor is the snapshot taken at its
\* own call, whatever the other actors have received since
C16_ReturnStep ==
  \A a \in Actors :
    (pc[a] = "FETCHING" /\ pc'[a] = "ROLLING_OUT") =>
      /\ frame_count'[a] = response[a].frameCount
      /\ params'[a] = response[a].parameters
      /\ lastReturner' = a
      /\ receivedOlder'[a] = (/\ lastReturner \notin {0, a}
                              /\ frame_count'[a] < frame_count[lastReturner])

\* a trajectory enters at the tail of the queue when its call completes, whichever
\* actor's trajectory entered before it
C16_ArrivalStep ==
  \A a \in Actors :
    (pc[a] = "SUBMITTING" /\ pc'[a] = "LoopTest") =>
      /\ queue' = Append(queue, traj[a])
      /\ lastEnqueuer' = a
      /\ enteredAfter'[a] = lastEnqueuer

\* an actor that received an older frameCount than another actor had just
\* received holds a snapshot behind that actor's and behind the published one
C16_OlderInv ==
  \A a \in Actors :
    receivedOlder[a] =>
      /\ HasFetched(a)
      /\ frame_count[a] < published.frameCount
      /\ \E b \in Actors \ {a} : HasFetched(b) /\ frame_count[a] < frame_count[b]

\* C16: no ordering holds between different actors.  Each GetParams return hands
\* its actor the snapshot of its own call and each trajectory enters the queue at
\* the completion of its own call, with nothing that orders one actor's step
\* after another's; so an actor can receive a lower frameCount than another actor
\* received immediately before, and the trajectories of two actors can enter the
\* queue in either order (both are reached in C16_Witness).
C16_NoOrderBetweenActors ==
  /\ []C16_OlderInv
  /\ [][C16_ReturnStep /\ C16_ArrivalStep]_vars

\* actor a received a lower frameCount than b had received immediately before,
\* b's trajectory entered the queue immediately before a's latest, and a's
\* immediately before b's latest
C16_Witness ==
  /\ recording
  /\ \E a, b \in Actors :
       /\ a # b
       /\ lastReturner = a
       /\ receivedOlder[a]
       /\ frame_count[a] < frame_count[b]
       /\ enteredAfter[a] = b
       /\ enteredAfter[b] = a

\* ---- C17 ----
\* the local state of an actor: the locals of its run_actor thread, the call it
\* has in flight and the counts kept of its calls
Locals(a) ==
  <<pc[a], frame_count[a], params[a], traj[a], iters[a], prevFetch[a],
    inserts[a], insertOk[a], error[a], response[a], fetches[a]>>

\* a step of the loop of a running actor
LoopStepOf(a) == pc[a] # "NotStarted" /\ pc'[a] # pc[a]

\* a step of an actor's loop leaves everything outside the actor unchanged, but
\* for the one trajectory a completing InsertTrajectory appends to the queue
C17_LoopStepFrame ==
  \A a \in Actors :
    LoopStepOf(a) =>
      /\ stop_signal' = stop_signal
      /\ UNCHANGED <<supPc, started, joined>>
      /\ UNCHANGED <<published, versions, updates>>
      /\ \A b \in Actors \ {a} : Locals(b)' = Locals(b)
      /\ \/ queue' = queue
         \/ /\ pc[a] = "SUBMITTING"
            /\ pc'[a] = "LoopTest"
            /\ queue' = Append(queue, traj[a])

\* a step of the supervisor or of the learner changes no actor's local state,
\* but for starting its thread
C17_SupervisorStepFrame ==
  (supPc' # supPc \/ started' # started \/ joined' # joined \/ updates' # updates) =>
    \A a \in Actors :
      \/ Locals(a)' = Locals(a)
      \/ /\ pc[a] = "NotStarted"
         /\ pc'[a] = "LoopTest"
         /\ Locals(a)' = <<"LoopTest">> \o Tail(Locals(a))

C18_CountInv ==
  \A a \in Actors :
    /\ inserts[a] <= fetches[a]
    /\ fetches[a] <= inserts[a] + 1

\* the trajectory of the call in flight is the one of the current iteration,
\* rolled out with what the GetParams call of this iteration returned
C18_SubmitInv ==
  \A a \in Actors :
    pc[a] = "SUBMITTING" =>
      /\ inserts[a] = fetches[a]
      /\ traj[a].actor = a
      /\ traj[a].iter = fetches[a]
      /\ traj[a].frameCount = frame_count[a]
      /\ traj[a].parameters = params[a]

\* frame_count and params change only when a GetParams call returns, and then to
\* what that call returned; the rollout is invoked with them; the trajectory
\* that enters the queue is the one that rollout produced
C18_IterationStep ==
  \A a \in Actors :
    /\ (frame_count'[a] # frame_count[a] \/ params'[a] # params[a]) =>
         /\ pc[a] = "FETCHING"
         /\ fetches'[a] = fetches[a] + 1
    /\ fetches'[a] # fetches[a] =>
         /\ fetches'[a] = fetches[a] + 1
         /\ fetches'[a] = iters[a]
         /\ Held(a)' = response[a]
    /\ inserts'[a] # inserts[a] =>
         /\ inserts'[a] = inserts[a] + 1
         /\ inserts'[a] = fetches[a]
         /\ traj'[a].iter = fetches[a]
         /\ traj'[a].frameCount = frame_count[a]
         /\ traj'[a].parameters = params[a]
    /\ insertOk'[a] # insertOk[a] =>
         /\ pc[a] = "SUBMITTING"
         /\ queue' = Append(queue, traj[a])

\* C18: for every actor and in every reachable state, the number of
\* InsertTrajectory calls it has issued is at most the number of GetParams calls
\* it has completed and at least that number minus one, and each trajectory it
\* submits was produced by a rollout invoked with the frameCount and parameters
\* returned by the GetParams call of the same iteration, never those of an
\* earlier iteration.
C18_OneFetchPerSubmission ==
  /\ [](C18_CountInv /\ C18_SubmitInv)
  /\ [][C18_IterationStep]_vars

\* an actor submits the trajectory of its second iteration, rolled out with a
\* snapshot newer than the one of its first, while the other actor has completed
\* one GetParams more than it has issued InsertTrajectory calls
C18_Witness ==
  \E a, b \in Actors :
    /\ a # b
    /\ pc[a] = "SUBMITTING"
    /\ fetches[a] = 2
    /\ inserts[a] = 2
    /\ prevFetch[a] # NoSnapshot
    /\ prevFetch[a].frameCount < traj[a].frameCount
    /\ pc[b] = "ROLLING_OUT"
    /\ fetches[b] = inserts[b] + 1

\* ---- C19 ----
\* until learner.run has returned normally the signal is false and no actor has
\* left its loop by observing it
C19_NoStopInv ==
  supPc \in {"Starting", "Learner", "Aborted"} =>
    /\ ~stop_signal
    /\ stopWrites = 0
    /\ \A a \in Actors : pc[a] # "STOPPED"

\* main reaches the write of the signal only from a learner.run that returned
\* with all its updates done; a main that ended abnormally stays ended
C19_PathStep ==
  /\ (supPc' = "SetStop" /\ supPc # "SetStop") =>
       (supPc = "Learner" /\ updates = MaxUpdates)
  /\ stop_signal' # stop_signal => supPc = "SetStop"
  /\ supPc = "Aborted" => (supPc' = "Aborted" /\ ~stop_signal')

\* after learner.run ended abnormally, every actor whose calls and rollouts keep
\* succeeding goes on iterating, as far as the bound on iterations lets it
C19_KeepsIterating ==
  \A a \in Actors :
    supPc = "Aborted" ~>
      (pc[a] = "FAILED" \/ (pc[a] = "LoopTest" /\ insertOk[a] = MaxIters))

\* C19: the stop signal is set only on the path where learner.run returns
\* normally.  If learner.run never returns or ends abnormally, the signal stays
\* false forever, no actor ever leaves its loop by observing it, and every actor
\* whose RPCs and rollouts keep succeeding keeps iterating (here: up to MaxIters
\* iterations, the bound of the model).
C19_StopOnlyAfterNormalReturn ==
  /\ []C19_NoStopInv
  /\ [][C19_PathStep]_vars
  /\ C19_KeepsIterating

\* learner.run ended abnormally before any update; the signal is unset and every
\* actor has gone through all its iterations, their trajectories left in the queue
C19_Witness ==
  /\ supPc = "Aborted"
  /\ ~stop_signal
  /\ updates = 0
  /\ \A a \in Actors : pc[a] = "LoopTest" /\ insertOk[a] = MaxIters
  /\ Len(queue) = NUM_ACTORS * MaxIters

====
